---- MODULE Spec2Model ----
(***************************************************************************)
(* Model of the PM2 management API of src/pm2_control.js: an express       *)
(* server whose route handlers drive the pm2 module (one module-wide       *)
(* client, line 18) and child_process.exec through chains of callbacks.    *)
(*                                                                         *)
(* One action of the model is one turn of the Node event loop: the         *)
(* synchronous part of a handler up to its first external call, or one     *)
(* callback of an external call together with everything it runs           *)
(* synchronously (the continuation of `await connectPM2()` is a microtask  *)
(* of the connect callback, so it belongs to that callback's turn).        *)
(* What the process manager and the subprocesses answer is outside the     *)
(* program, so every callback draws its arguments from a bounded set.      *)
(*                                                                         *)
(* A JavaScript string is a sequence of characters; a literal piece of a   *)
(* template string is written as one element.  undefined is the one-       *)
(* element sequence Undefined, which no string of the model equals.        *)
(***************************************************************************)
EXTENDS Integers, Sequences, FiniteSets, TLC

VARIABLES
  op,        \* op[r]: the route that request slot r is serving
  id,        \* id[r]: req.params.id of the request
  body,      \* body[r]: req.body of the request (read by Start only)
  pc,        \* pc[r]: the external call whose callback the request awaits
  proc,      \* proc[r]: desc[0] captured by the describe callback
  gitOut,    \* gitOut[r]: stdout captured by the pull callback
  errOut,    \* errOut[r]: stderr handed to the callback of a failed exec
  query,     \* query[r]: req.query.lines of the request (read by Logs only)
  key,       \* key[r]: the API key the request carries
  adminKey,  \* process.env.ADMIN_KEY
  list,      \* list[r]: the array the pm2.list callback of Status got
  now,       \* now[r]: what the calls of Date.now() in that callback returned
  resp,      \* resp[r]: the HTTP response sent (status 0: none yet)
  trace,     \* trace[r]: the external calls, callbacks, disconnects and
             \* the response of the request, in the order they happened
  connOpen,  \* whether the module-wide pm2 client holds a connection
  connects,  \* successful pm2.connect calls over all requests
  disconnects, \* pm2.disconnect calls over all requests
  served     \* requests received so far

vars == <<op, id, body, pc, proc, gitOut, errOut, query, key, adminKey, list,
          now, resp, trace, connOpen, connects, disconnects, served>>

----------------------------------------------------------------------------
(* Bounds *)

\* Requests received in one run of the server.
MaxRequests == 2
\* Length of the process list pm2.list hands to a Status request that runs
\* next to other requests.
MaxList == 1
\* Length of the process list in the specification of the Status callback
\* alone (SpecStatus).
MaxStatusList == 2
\* Length of the array pm2.describe hands back.
MaxDesc == 1
\* Largest pm_id the manager assigns.
MaxPmId == 1

\* Requests in flight at once: two slots, each reused when its request has
\* been answered.
Req == {1, 2}

----------------------------------------------------------------------------
(* JavaScript values *)

Undefined == <<"undefined">>
All == <<"a", "l", "l">>

\* Truthiness of a string-or-undefined value: undefined and "" are falsy.
Truthy(s) == s # Undefined /\ s # <<>>

\* a || b
OrElse(a, b) == IF Truthy(a) THEN a ELSE b

Digits == <<"0", "1", "2", "3", "4", "5", "6", "7", "8", "9">>

\* String(n) for a non-negative integer: its decimal digits.
RECURSIVE ToStr(_)
ToStr(n) == IF n < 10 THEN <<Digits[n + 1]>>
            ELSE ToStr(n \div 10) \o <<Digits[(n % 10) + 1]>>

\* The characters String.prototype.trim strips and parseInt skips, among
\* the ASCII characters, which are the characters of the model's strings:
\* space, \n, \t, \r, \f and U+000B (vertical tab, written as the character
\* itself).
IsWs(c) == c \in {" ", "\n", "\t", "\r", "\f", ""}

RECURSIVE TrimStart(_)
TrimStart(s) == IF s # <<>> /\ IsWs(Head(s)) THEN TrimStart(Tail(s)) ELSE s

RECURSIVE TrimEnd(_)
TrimEnd(s) == IF s # <<>> /\ IsWs(s[Len(s)])
              THEN TrimEnd(SubSeq(s, 1, Len(s) - 1)) ELSE s

\* String.prototype.trim
Trim(s) == TrimEnd(TrimStart(s))

\* A JavaScript number as parseInt gives it: NaN, or an integer.
NaN == [nan |-> TRUE, val |-> 0]
Num(v) == [nan |-> FALSE, val |-> v]

IsDigit(c) == \E d \in 1..10 : Digits[d] = c
DigitVal(c) == (CHOOSE d \in 1..10 : Digits[d] = c) - 1

\* The value of the longest prefix of decimal digits of s; NaN when s does
\* not start with a digit.
RECURSIVE ParseDigits(_, _, _)
ParseDigits(s, acc, seen) ==
  IF s # <<>> /\ IsDigit(Head(s))
  THEN ParseDigits(Tail(s), acc * 10 + DigitVal(Head(s)), TRUE)
  ELSE IF seen THEN Num(acc) ELSE NaN

\* parseInt(s, 10): leading whitespace is skipped, a sign is read, then the
\* digits up to the first character that is none.
ParseInt(s) ==
  LET t == TrimStart(s)
      signed == t # <<>> /\ Head(t) \in {"+", "-"}
      v == ParseDigits(IF signed THEN Tail(t) ELSE t, 0, FALSE)
  IN IF v.nan THEN NaN
     ELSE IF signed /\ Head(t) = "-" THEN Num(0 - v.val) ELSE v

\* `${n}` for a number.
NumStr(v) == IF v.nan THEN <<"N", "a", "N">>
             ELSE IF v.val < 0 THEN <<"-">> \o ToStr(0 - v.val)
             ELSE ToStr(v.val)

\* An error object, or the null/undefined a callback gets on success.
NoErr == [isErr |-> FALSE, message |-> Undefined]
Err(m) == [isErr |-> TRUE, message |-> m]
ErrMsgs == {<<"E">>, <<"spawn error">>}
Errs == {Err(m) : m \in ErrMsgs}

----------------------------------------------------------------------------
(* What the process manager and the subprocesses hand back *)

Names == {<<"a">>, <<"1">>, All}
Cwds == {Undefined, <<"/", "s">>}

\* A process as pm2 describes it (the fields the handlers read).
Proc(i, n, c, u) ==
  [pm_id |-> i, name |-> n, pid |-> 100 + i,
   pm2_env |-> [status |-> <<"online">>, pm_cwd |-> c, pm_uptime |-> u,
                restart_time |-> 0]]

\* pm_uptime: epoch milliseconds; 0 stands for an absent (falsy) value.
Uptimes == {0, 1500, 4000}
Nows == {3000, 3500}

RECURSIVE SeqsOfLen(_, _)
SeqsOfLen(S, n) ==
  IF n = 0 THEN {<<>>}
  ELSE {Append(s, x) : s \in SeqsOfLen(S, n - 1), x \in S}

Procs == {Proc(i, n, c, u) : i \in 0..MaxPmId, n \in Names,
                             c \in {<<"/", "s">>}, u \in Uptimes}

\* Processes of the requests that run next to each other: one name, so
\* that the data does not multiply the interleavings.
ProcsConc == {Proc(0, <<"a">>, c, 1500) : c \in Cwds}

RECURSIVE SeqsUpTo(_, _)
SeqsUpTo(S, n) ==
  IF n = 0 THEN {<<>>}
  ELSE LET shorter == SeqsUpTo(S, n - 1)
       IN shorter \cup {Append(s, x) : s \in {t \in shorter : Len(t) = n - 1},
                                       x \in S}

\* The second argument of the describe callback: null, or an array.
DescNull == [isNull |-> TRUE, items |-> <<>>]
DescOf(items) == [isNull |-> FALSE, items |-> items]
DescVals == {DescNull} \cup {DescOf(s) : s \in SeqsUpTo(ProcsConc, MaxDesc)}

\* (err, desc) pairs of the describe callback: an error comes without data.
DescResults == {[err |-> e, desc |-> DescNull] : e \in Errs}
               \cup {[err |-> NoErr, desc |-> d] : d \in DescVals}

GitOuts == {<<"u", "\r", "\n">>, <<" ", "v">>}
GitErrOuts == {<<>>, <<"f", "\n">>}
LogOuts == {<<"l", "\n">>}
LogErrOuts == {<<>>, <<"g">>}

\* req.query.lines of Logs: absent, a number, and text that is no number or
\* only starts with one.
LinesQueries == {Undefined, <<"1", "2">>, <<"a", "b">>, <<"7", "x">>}

\* The API key of a request (x-api-key header or api_key query parameter)
\* and the ADMIN_KEY of the environment: absent or text.
Keys == {Undefined, <<"k">>, <<"x">>}
AdminKeys == {Undefined, <<"k">>}

Routes == {"health", "status", "describe", "restart", "stop", "start", "logs",
           "update"}

\* Path tokens of the requests that run next to each other.
Ids == {All, <<"0">>}
\* Path token of the requests that are turned away: the middleware does not
\* read it.
RefusedIds == {<<"0">>}
\* Path tokens of the Status callback checked alone.
Tokens == {All, <<"0">>, <<"1">>, <<"a">>, <<"z">>}

\* req.body of Start; an absent instances reads as 0 (both are falsy), and
\* instancesGiven tells the two apart.
NoBody == [script |-> Undefined, args |-> Undefined, cwd |-> Undefined,
           exec_mode |-> Undefined, instances |-> 0, instancesGiven |-> FALSE]
Bodies == {NoBody,
           [NoBody EXCEPT !.script = <<"s">>],
           [NoBody EXCEPT !.script = <<"s">>, !.instancesGiven = TRUE],
           [script |-> <<"s">>, args |-> <<"x">>, cwd |-> <<"/", "s">>,
            exec_mode |-> <<"cluster">>, instances |-> 2,
            instancesGiven |-> TRUE]}

----------------------------------------------------------------------------
(* The record of what a request did *)

NoOpts == [name |-> Undefined, script |-> Undefined, args |-> Undefined,
           cwd |-> Undefined, exec_mode |-> Undefined, instances |-> 0]

\* An external call being issued: pm2.connect/list/describe/restart/stop/
\* start, or exec of the pull ("git") or of the log tail ("logs").
Call(c, arg) == [k |-> "call", c |-> c, arg |-> arg, ok |-> TRUE, n |-> 0,
                 opts |-> NoOpts]
StartCall(opts) == [k |-> "call", c |-> "start", arg |-> opts.name,
                    ok |-> TRUE, n |-> 0, opts |-> opts]
\* The callback of an external call: ok when it got no error, arg the
\* message of the error it got, n the number of items of the array it got
\* (describe).
Cb(c, e) == [k |-> "cb", c |-> c, arg |-> e.message, ok |-> ~e.isErr,
             n |-> 0, opts |-> NoOpts]
DescCb(e, d) == [k |-> "cb", c |-> "describe", arg |-> e.message,
                 ok |-> ~e.isErr, n |-> Len(d.items), opts |-> NoOpts]
Disc == [k |-> "disconnect", c |-> "disconnect", arg |-> <<>>, ok |-> TRUE,
         n |-> 0, opts |-> NoOpts]
Sent == [k |-> "respond", c |-> "respond", arg |-> <<>>, ok |-> TRUE,
         n |-> 0, opts |-> NoOpts]

NoResp == [status |-> 0, body |-> [none |-> TRUE]]
NoProc == Proc(0, Undefined, Undefined, 0)

\* Positions of e in the trace t.
At(t, k, c) == {i \in 1..Len(t) : t[i].k = k /\ t[i].c = c}
Occurs(t, k, c) == At(t, k, c) # {}
Count(t, k, c) == Cardinality(At(t, k, c))

----------------------------------------------------------------------------
(* Responses *)

ErrorBody(m) == [error |-> m]
NotFoundBody(i) == [error |-> <<"Process '">> \o i \o <<"' not found">>]

\* The catch block of every handler: res.status(500).json({error: ...}).
CatchResponse(e) == [status |-> 500, body |-> ErrorBody(e.message)]

MsPerSec == 1000

\* One entry of Status "all" (lines 71-79).
Formatted(p, t) ==
  [id |-> p.pm_id, name |-> p.name, pid |-> p.pid,
   status |-> p.pm2_env.status, cwd |-> p.pm2_env.pm_cwd,
   uptime_seconds |-> IF p.pm2_env.pm_uptime # 0
                      THEN (t - p.pm2_env.pm_uptime) \div MsPerSec
                      ELSE 0,
   restarts |-> p.pm2_env.restart_time]

\* The summary of one process (lines 86-93).
Summary(p) ==
  [id |-> p.pm_id, name |-> p.name, pid |-> p.pid,
   status |-> p.pm2_env.status, cwd |-> p.pm2_env.pm_cwd,
   restarts |-> p.pm2_env.restart_time]

\* The predicate of list.find (line 84).
Matches(p, i) == ToStr(p.pm_id) = i \/ p.name = i

\* list.find, had it kept the last element that matches.
FindLast(l, i) ==
  LET hits == {j \in 1..Len(l) : Matches(l[j], i)}
  IN IF hits = {} THEN 0 ELSE CHOOSE j \in hits : \A h \in hits : h <= j

\* list.find, had it looked for an id match before a name match.
FindIdFirst(l, i) ==
  LET ids == {j \in 1..Len(l) : ToStr(l[j].pm_id) = i}
      hits == {j \in 1..Len(l) : Matches(l[j], i)}
  IN IF ids # {} THEN CHOOSE j \in ids : \A h \in ids : j <= h
     ELSE IF hits = {} THEN 0
     ELSE CHOOSE j \in hits : \A h \in hits : j <= h

\* list.find: the index of the first element that matches, 0 when none does.
Find(l, i) ==
  LET hits == {j \in 1..Len(l) : Matches(l[j], i)}
  IN IF hits = {} THEN 0 ELSE CHOOSE j \in hits : \A h \in hits : j <= h

\* The calls of Date.now() that list.map has made before element j and over
\* the whole list: one for each element with a pm_uptime (line 77).
ReadsBefore(l, j) ==
  Cardinality({k \in 1..(j - 1) : l[k].pm2_env.pm_uptime # 0})
Reads(l) == ReadsBefore(l, Len(l) + 1)

\* What the successive calls of Date.now() return in the callback for token
\* i and list l: each call reads the wall clock anew.
Clocks(i, l) == SeqsOfLen(Nows, IF i = All THEN Reads(l) ELSE 0)

\* What the pm2.list callback of Status sends (lines 68-93); t holds the
\* values of the successive calls of Date.now().
StatusResponse(i, e, l, t) ==
  IF e.isErr THEN [status |-> 500, body |-> ErrorBody(e.message)]
  ELSE IF i = All
  THEN [status |-> 200,
        body |-> [count |-> Len(l),
                  processes |->
                    [j \in 1..Len(l) |->
                       Formatted(l[j], IF l[j].pm2_env.pm_uptime # 0
                                       THEN t[ReadsBefore(l, j) + 1]
                                       ELSE 0)]]]
  ELSE IF Find(l, i) = 0
  THEN [status |-> 404, body |-> NotFoundBody(i)]
  ELSE [status |-> 200, body |-> Summary(l[Find(l, i)])]

\* !desc || !desc.length
NoDescriptor(d) == d.isNull \/ Len(d.items) = 0

\* What the describe callback would send without the check of line 111.
DescribeResponseUnchecked(i, e, d) ==
  IF e.isErr THEN [status |-> 500, body |-> ErrorBody(e.message)]
  ELSE [status |-> 200,
        body |-> IF NoDescriptor(d) THEN NoProc ELSE d.items[1]]

\* What the pm2.describe callback of Describe sends (lines 110-112).
DescribeResponse(i, e, d) ==
  IF e.isErr THEN [status |-> 500, body |-> ErrorBody(e.message)]
  ELSE IF NoDescriptor(d) THEN [status |-> 404, body |-> NotFoundBody(i)]
  ELSE [status |-> 200, body |-> d.items[1]]

\* The startOpts of a fresh launch (lines 186-193).
StartOpts(i, b) ==
  [name |-> i, script |-> b.script, args |-> OrElse(b.args, <<>>),
   cwd |-> OrElse(b.cwd, Undefined),
   exec_mode |-> OrElse(b.exec_mode, <<"fork">>),
   instances |-> IF b.instances # 0 THEN b.instances ELSE 1]

\* The argument of a start by name: { name: id } (line 177).
ByNameOpts(i) == [NoOpts EXCEPT !.name = i]

\* The commands handed to exec (lines 242 and 256).
PullCmd(cwd) ==
  <<"cd ">> \o cwd \o <<" && git stash --include-untracked && git pull">>
UpdateLogLines == 10
TailCmd(i, lines) ==
  <<"pm2 logs ">> \o i \o <<" --lines ">> \o ToStr(lines) \o <<" --nostream">>

\* The lines of Logs (line 211): parseInt(req.query.lines || "30", 10).
LinesOf(q) == ParseInt(OrElse(q, <<"3", "0">>))

\* The command of Logs (line 212).
LogsCmd(i, v) ==
  <<"pm2 logs ">> \o i \o <<" --lines ">> \o NumStr(v) \o <<" --nostream">>

\* The logs of the Update outcome (line 257).
LogsText(logErr, stdout) ==
  IF logErr.isErr THEN <<"Could not fetch logs:", " ">> \o logErr.message
  ELSE stdout

\* The Update outcome (lines 258-263).
UpdateOutcomeUntrimmed(p, cwd, out, logs) ==
  [message |-> <<"Updated and restarted '">> \o p.name \o <<"'">>,
   cwd |-> cwd, git_output |-> out, logs |-> logs]
UpdateOutcome(p, cwd, out, logs) ==
  [message |-> <<"Updated and restarted '">> \o p.name \o <<"'">>,
   cwd |-> cwd, git_output |-> Trim(out), logs |-> Trim(logs)]

----------------------------------------------------------------------------
(* The server *)

Init ==
  /\ op = [r \in Req |-> "none"]
  /\ id = [r \in Req |-> <<>>]
  /\ body = [r \in Req |-> NoBody]
  /\ pc = [r \in Req |-> "idle"]
  /\ proc = [r \in Req |-> NoProc]
  /\ gitOut = [r \in Req |-> <<>>]
  /\ errOut = [r \in Req |-> <<>>]
  /\ query = [r \in Req |-> Undefined]
  /\ key = [r \in Req |-> Undefined]
  /\ adminKey \in AdminKeys
  /\ list = [r \in Req |-> <<>>]
  /\ now = [r \in Req |-> <<>>]
  /\ resp = [r \in Req |-> NoResp]
  /\ trace = [r \in Req |-> <<>>]
  /\ connOpen = FALSE
  /\ connects = 0
  /\ disconnects = 0
  /\ served = 0

\* The request has its response and no callback outstanding.
Finished(r) == pc[r] = "done"
Free(r) == pc[r] \in {"idle", "done"}

\* What one turn of request r does to the request itself.
Goes(r, to, events) ==
  /\ pc' = [pc EXCEPT ![r] = to]
  /\ trace' = [trace EXCEPT ![r] = @ \o events]
  /\ UNCHANGED <<op, id, body, query, key, adminKey, served>>

Sends(r, response) == resp' = [resp EXCEPT ![r] = response]

\* disconnectPM2 (line 49): pm2.disconnect() on the module-wide client.
DisconnectPM2 ==
  /\ connOpen' = FALSE
  /\ disconnects' = disconnects + 1
  /\ UNCHANGED connects

\* connectPM2 resolved (lines 45-48): the module-wide client is connected.
Connected ==
  /\ connOpen' = TRUE
  /\ connects' = connects + 1
  /\ UNCHANGED disconnects

\* The auth middleware lets a request with key k through (lines 31-35):
\* not (!key || key !== process.env.ADMIN_KEY).
AdmitsAnyEqual(k) == k = adminKey
Admits(k) == Truthy(k) /\ k = adminKey

\* A request takes a free slot: what it carries, where it stands after the
\* first turn, and what that turn did and sent.
Arrives(r, o, i, b, q, k, to, events, response) ==
  /\ Free(r)
  /\ served < MaxRequests
  /\ served' = served + 1
  /\ op' = [op EXCEPT ![r] = o]
  /\ id' = [id EXCEPT ![r] = i]
  /\ body' = [body EXCEPT ![r] = b]
  /\ query' = [query EXCEPT ![r] = q]
  /\ key' = [key EXCEPT ![r] = k]
  /\ pc' = [pc EXCEPT ![r] = to]
  /\ proc' = [proc EXCEPT ![r] = NoProc]
  /\ gitOut' = [gitOut EXCEPT ![r] = <<>>]
  /\ errOut' = [errOut EXCEPT ![r] = <<>>]
  /\ list' = [list EXCEPT ![r] = <<>>]
  /\ now' = [now EXCEPT ![r] = <<>>]
  /\ resp' = [resp EXCEPT ![r] = response]
  /\ trace' = [trace EXCEPT ![r] = events]
  /\ UNCHANGED <<adminKey, connOpen, connects, disconnects>>

ForbiddenResponse ==
  [status |-> 403,
   body |-> ErrorBody(<<"Forbidden: Invalid or missing API key">>)]

\* A request that the auth middleware turns away (lines 30-34): next() is
\* not called, so no route handler runs.
Forbidden(r) ==
  \E o \in Routes, i \in RefusedIds, k \in Keys :
    /\ ~Admits(k)
    /\ Arrives(r, o, i, NoBody, Undefined, k, "done", <<Sent>>,
               ForbiddenResponse)

\* A request arrives and passes the middleware: express runs the route's
\* handler, which reads its parameters and calls connectPM2 (the first
\* lines of every handler but Logs).
Enter(r, o, i, b) ==
  \E k \in Keys :
    /\ Admits(k)
    /\ Arrives(r, o, i, b, Undefined, k, "connect",
               <<Call("connect", <<>>)>>, NoResp)

(* GET /pm2/health/:id (lines 52-54) *)

HealthResponse(i) == [status |-> 200, body |-> [ok |-> TRUE, id |-> i]]

\* The handler answers in the turn of the arrival and calls nothing.
HealthRequest(r) ==
  \E i \in Ids, k \in Keys :
    /\ Admits(k)
    /\ Arrives(r, "health", i, NoBody, Undefined, k, "done", <<Sent>>,
               HealthResponse(i))

\* The catch block, had it released the connection that was never opened.
CatchDisconnects(r, e) ==
  /\ Goes(r, "done", <<Cb("connect", e), Disc, Sent>>)
  /\ Sends(r, CatchResponse(e))
  /\ DisconnectPM2
  /\ UNCHANGED <<proc, gitOut, errOut, list, now>>

\* connectPM2 rejected: the handler's catch block answers 500.
Catch(r, e) ==
  /\ Goes(r, "done", <<Cb("connect", e), Sent>>)
  /\ Sends(r, CatchResponse(e))
  /\ UNCHANGED <<proc, gitOut, errOut, list, now, connOpen, connects, disconnects>>

\* connectPM2 resolved and the handler went on to its first manager call.
Proceed(r, to, call) ==
  /\ Goes(r, to, <<Cb("connect", NoErr), call>>)
  /\ Connected
  /\ UNCHANGED <<proc, gitOut, errOut, list, now, resp>>

Awaits(r, o, at) == op[r] = o /\ pc[r] = at

(* GET /pm2/status/:id (lines 62-98) *)

StatusRequest(r) == \E i \in Ids : Enter(r, "status", i, NoBody)

StatusConnectCb(r) ==
  /\ Awaits(r, "status", "connect")
  /\ \E e \in {NoErr} \cup Errs :
       IF e.isErr THEN Catch(r, e)
       ELSE Proceed(r, "list", Call("list", <<>>))

\* The pm2.list callback (lines 66-94).
StatusListCbWith(r, e, l, t) ==
  /\ Awaits(r, "status", "list")
  /\ Goes(r, "done", <<Cb("list", e), Disc, Sent>>)
  /\ DisconnectPM2
  /\ Sends(r, StatusResponse(id[r], e, l, t))
  /\ list' = [list EXCEPT ![r] = l]
  /\ now' = [now EXCEPT ![r] = t]
  /\ UNCHANGED <<proc, gitOut, errOut>>

StatusListCb(r) ==
  /\ Awaits(r, "status", "list")
  /\ \/ \E e \in Errs : StatusListCbWith(r, e, <<>>, <<>>)
     \/ \E l \in SeqsUpTo(ProcsConc, MaxList) :
          \E t \in Clocks(id[r], l) : StatusListCbWith(r, NoErr, l, t)

(* GET /pm2/describe/:id (lines 104-117) *)

DescribeRequest(r) == \E i \in Ids : Enter(r, "describe", i, NoBody)

DescribeConnectCb(r) ==
  /\ Awaits(r, "describe", "connect")
  /\ \E e \in {NoErr} \cup Errs :
       IF e.isErr THEN Catch(r, e)
       ELSE Proceed(r, "describe", Call("describe", id[r]))

\* The pm2.describe callback (lines 108-113).
DescribeCb(r) ==
  /\ Awaits(r, "describe", "describe")
  /\ \E res \in DescResults :
       /\ Goes(r, "done", <<DescCb(res.err, res.desc), Disc, Sent>>)
       /\ DisconnectPM2
       /\ Sends(r, DescribeResponse(id[r], res.err, res.desc))
       /\ UNCHANGED <<proc, gitOut, errOut, list, now>>

(* POST /pm2/restart/:id (lines 123-142) *)

RestartRequest(r) == \E i \in Ids : Enter(r, "restart", i, NoBody)

RestartConnectCb(r) ==
  /\ Awaits(r, "restart", "connect")
  /\ \E e \in {NoErr} \cup Errs :
       IF e.isErr THEN Catch(r, e)
       ELSE Proceed(r, "describe", Call("describe", id[r]))

\* dErr || !desc || !desc.length (lines 128 and 229)
DescribeMissed(res) == res.err.isErr \/ NoDescriptor(res.desc)

\* The pm2.describe callback of Restart, had it checked the error alone
\* before restarting.
RestartDescribeCbErrOnly(r) ==
  /\ Awaits(r, "restart", "describe")
  /\ \E res \in DescResults :
       IF res.err.isErr
       THEN /\ Goes(r, "done", <<DescCb(res.err, res.desc), Disc, Sent>>)
            /\ DisconnectPM2
            /\ Sends(r, [status |-> 404, body |-> NotFoundBody(id[r])])
            /\ UNCHANGED <<proc, gitOut, errOut, list, now>>
       ELSE /\ Goes(r, "restart", <<DescCb(res.err, res.desc),
                                    Call("restart", id[r])>>)
            /\ proc' = [proc EXCEPT ![r] = IF NoDescriptor(res.desc) THEN NoProc
                                           ELSE res.desc.items[1]]
            /\ UNCHANGED <<gitOut, errOut, list, now, resp, connOpen, connects, disconnects>>

\* The pm2.describe callback of Restart (lines 127-138).
RestartDescribeCb(r) ==
  /\ Awaits(r, "restart", "describe")
  /\ \E res \in DescResults :
       IF DescribeMissed(res)
       THEN /\ Goes(r, "done", <<DescCb(res.err, res.desc), Disc, Sent>>)
            /\ DisconnectPM2
            /\ Sends(r, [status |-> 404, body |-> NotFoundBody(id[r])])
            /\ UNCHANGED <<proc, gitOut, errOut, list, now>>
       ELSE /\ Goes(r, "restart", <<DescCb(res.err, res.desc),
                                    Call("restart", id[r])>>)
            /\ proc' = [proc EXCEPT ![r] = res.desc.items[1]]
            /\ UNCHANGED <<gitOut, errOut, list, now, resp, connOpen, connects, disconnects>>

RestartedBody(p) ==
  [message |-> <<"Process '">> \o p.name \o <<"' restarted">>,
   id |-> p.pm_id, name |-> p.name]

\* The pm2.restart callback of Restart (lines 133-137).
RestartCb(r) ==
  /\ Awaits(r, "restart", "restart")
  /\ \E e \in {NoErr} \cup Errs :
       /\ Goes(r, "done", <<Cb("restart", e), Disc, Sent>>)
       /\ DisconnectPM2
       /\ Sends(r, IF e.isErr
                   THEN [status |-> 500, body |-> ErrorBody(e.message)]
                   ELSE [status |-> 200, body |-> RestartedBody(proc[r])])
       /\ UNCHANGED <<proc, gitOut, errOut, list, now>>

(* POST /pm2/stop/:id (lines 148-160) *)

StopRequest(r) == \E i \in Ids : Enter(r, "stop", i, NoBody)

StopConnectCb(r) ==
  /\ Awaits(r, "stop", "connect")
  /\ \E e \in {NoErr} \cup Errs :
       IF e.isErr THEN Catch(r, e)
       ELSE Proceed(r, "stop", Call("stop", id[r]))

\* The pm2.stop callback (lines 152-156).
StopCb(r) ==
  /\ Awaits(r, "stop", "stop")
  /\ \E e \in {NoErr} \cup Errs :
       /\ Goes(r, "done", <<Cb("stop", e), Disc, Sent>>)
       /\ DisconnectPM2
       /\ Sends(r, IF e.isErr
                   THEN [status |-> 500, body |-> ErrorBody(e.message)]
                   ELSE [status |-> 200,
                         body |-> [message |-> <<"Process '">> \o id[r]
                                                \o <<"' stopped">>]])
       /\ UNCHANGED <<proc, gitOut, errOut, list, now>>

(* POST /pm2/start/:id (lines 168-203) *)

StartRequest(r) == \E i \in Ids, b \in Bodies : Enter(r, "start", i, b)

\* After connectPM2: a start by name when the body has no script, a fresh
\* launch otherwise (lines 173-195).
StartConnectCb(r) ==
  /\ Awaits(r, "start", "connect")
  /\ \E e \in {NoErr} \cup Errs :
       IF e.isErr THEN Catch(r, e)
       ELSE IF ~Truthy(body[r].script)
       THEN Proceed(r, "startByName", StartCall(ByNameOpts(id[r])))
       ELSE Proceed(r, "startFresh", StartCall(StartOpts(id[r], body[r])))

\* The callback of the start by name, had its failure been answered like
\* any other manager error.
StartByNameCbTransport(r) ==
  /\ Awaits(r, "start", "startByName")
  /\ \E e \in {NoErr} \cup Errs, p \in ProcsConc :
       /\ Goes(r, "done", <<Cb("start", e), Disc, Sent>>)
       /\ DisconnectPM2
       /\ Sends(r, IF e.isErr
                   THEN [status |-> 500, body |-> ErrorBody(e.message)]
                   ELSE [status |-> 200,
                         body |-> [message |-> <<"Process '">> \o id[r]
                                                \o <<"' started">>,
                                   proc |-> p]])
       /\ UNCHANGED <<proc, gitOut, errOut, list, now>>

\* The callback of the start by name (lines 177-182).
StartByNameCb(r) ==
  /\ Awaits(r, "start", "startByName")
  /\ \E e \in {NoErr} \cup Errs, p \in ProcsConc :
       /\ Goes(r, "done", <<Cb("start", e), Disc, Sent>>)
       /\ DisconnectPM2
       /\ Sends(r, IF e.isErr
                   THEN [status |-> 400,
                         body |-> [error |-> <<"Missing script; and starting by name failed">>,
                                   details |-> e.message]]
                   ELSE [status |-> 200,
                         body |-> [message |-> <<"Process '">> \o id[r]
                                                \o <<"' started">>,
                                   proc |-> p]])
       /\ UNCHANGED <<proc, gitOut, errOut, list, now>>

\* The callback of the fresh launch, had it returned on an error without
\* sending anything.
StartFreshCbSilent(r) ==
  /\ Awaits(r, "start", "startFresh")
  /\ \E e \in {NoErr} \cup Errs, p \in ProcsConc :
       /\ DisconnectPM2
       /\ UNCHANGED <<proc, gitOut, errOut, list, now>>
       /\ IF e.isErr
          THEN /\ Goes(r, "returned", <<Cb("start", e), Disc>>)
               /\ UNCHANGED resp
          ELSE /\ Goes(r, "done", <<Cb("start", e), Disc, Sent>>)
               /\ Sends(r, [status |-> 200,
                            body |-> [message |-> <<"Process '">> \o id[r]
                                                   \o <<"' started with script">>,
                                      proc |-> p]])

\* The callback of the fresh launch (lines 195-199).
StartFreshCb(r) ==
  /\ Awaits(r, "start", "startFresh")
  /\ \E e \in {NoErr} \cup Errs, p \in ProcsConc :
       /\ Goes(r, "done", <<Cb("start", e), Disc, Sent>>)
       /\ DisconnectPM2
       /\ Sends(r, IF e.isErr
                   THEN [status |-> 500, body |-> ErrorBody(e.message)]
                   ELSE [status |-> 200,
                         body |-> [message |-> <<"Process '">> \o id[r]
                                                \o <<"' started with script">>,
                                   proc |-> p]])
       /\ UNCHANGED <<proc, gitOut, errOut, list, now>>

(* GET /pm2/logs/:id (lines 209-217) *)

\* The handler runs exec at once: it does not use the manager connection.
LogsRequest(r) ==
  \E i \in Ids, q \in LinesQueries, k \in Keys :
    /\ Admits(k)
    /\ Arrives(r, "logs", i, NoBody, q, k, "logs",
               <<Call("logs", LogsCmd(i, LinesOf(q)))>>, NoResp)

\* The callback of exec (lines 212-216).
LogsCb(r) ==
  /\ Awaits(r, "logs", "logs")
  /\ UNCHANGED <<proc, gitOut, list, now, connOpen, connects, disconnects>>
  /\ \/ \E e \in Errs, stderr \in LogErrOuts :
          /\ Goes(r, "done", <<Cb("logs", e), Sent>>)
          /\ errOut' = [errOut EXCEPT ![r] = stderr]
          /\ Sends(r, [status |-> 500,
                       body |-> ErrorBody(OrElse(stderr, e.message))])
     \/ \E out \in LogOuts :
          /\ Goes(r, "done", <<Cb("logs", NoErr), Sent>>)
          /\ Sends(r, [status |-> 200,
                       body |-> [text |-> out,
                                 contentType |-> <<"text/plain">>]])
          /\ UNCHANGED errOut

(* POST /pm2/update/:id (lines 224-271) *)

UpdateRequest(r) == \E i \in Ids : Enter(r, "update", i, NoBody)

UpdateConnectCb(r) ==
  /\ Awaits(r, "update", "connect")
  /\ \E e \in {NoErr} \cup Errs :
       IF e.isErr THEN Catch(r, e)
       ELSE Proceed(r, "describe", Call("describe", id[r]))

\* proc.pm2_env && proc.pm2_env.pm_cwd (line 235); the manager's
\* descriptors always carry pm2_env.
CwdOf(p) == p.pm2_env.pm_cwd

\* The pm2.describe callback of Update, had it released the connection
\* before it ran the pull.
UpdateDescribeCbReleasesFirst(r) ==
  /\ Awaits(r, "update", "describe")
  /\ \E res \in DescResults :
       /\ DisconnectPM2
       /\ UNCHANGED <<gitOut, errOut, list, now>>
       /\ IF DescribeMissed(res)
          THEN /\ Goes(r, "done", <<DescCb(res.err, res.desc), Disc, Sent>>)
               /\ Sends(r, [status |-> 404, body |-> NotFoundBody(id[r])])
               /\ UNCHANGED proc
          ELSE IF ~Truthy(CwdOf(res.desc.items[1]))
          THEN /\ Goes(r, "done", <<DescCb(res.err, res.desc), Disc, Sent>>)
               /\ Sends(r, [status |-> 400,
                            body |-> ErrorBody(<<"Cannot determine working directory (pm_cwd) for process">>)])
               /\ proc' = [proc EXCEPT ![r] = res.desc.items[1]]
          ELSE /\ Goes(r, "git", <<DescCb(res.err, res.desc), Disc,
                                   Call("git", PullCmd(CwdOf(res.desc.items[1])))>>)
               /\ proc' = [proc EXCEPT ![r] = res.desc.items[1]]
               /\ UNCHANGED resp

\* The pm2.describe callback of Update (lines 228-242).
UpdateDescribeCb(r) ==
  /\ Awaits(r, "update", "describe")
  /\ \E res \in DescResults :
       IF DescribeMissed(res)
       THEN /\ Goes(r, "done", <<DescCb(res.err, res.desc), Disc, Sent>>)
            /\ DisconnectPM2
            /\ Sends(r, [status |-> 404, body |-> NotFoundBody(id[r])])
            /\ UNCHANGED <<proc, gitOut, errOut, list, now>>
       ELSE IF ~Truthy(CwdOf(res.desc.items[1]))
       THEN /\ Goes(r, "done", <<DescCb(res.err, res.desc), Disc, Sent>>)
            /\ DisconnectPM2
            /\ Sends(r, [status |-> 400,
                         body |-> ErrorBody(<<"Cannot determine working directory (pm_cwd) for process">>)])
            /\ proc' = [proc EXCEPT ![r] = res.desc.items[1]]
            /\ UNCHANGED <<gitOut, errOut, list, now>>
       ELSE /\ Goes(r, "git", <<DescCb(res.err, res.desc),
                                Call("git", PullCmd(CwdOf(res.desc.items[1])))>>)
            /\ proc' = [proc EXCEPT ![r] = res.desc.items[1]]
            /\ UNCHANGED <<gitOut, errOut, list, now, resp, connOpen, connects, disconnects>>

\* The callback of the pull, had the failed pull answered without releasing
\* the connection.
UpdateGitCbLeaks(r) ==
  /\ Awaits(r, "update", "git")
  /\ \/ \E e \in Errs, stderr \in GitErrOuts :
          /\ Goes(r, "done", <<Cb("git", e), Sent>>)
          /\ errOut' = [errOut EXCEPT ![r] = stderr]
          /\ Sends(r, [status |-> 500,
                       body |-> ErrorBody(OrElse(stderr, e.message))])
          /\ UNCHANGED <<proc, gitOut, list, now, connOpen, connects,
                         disconnects>>
     \/ \E out \in GitOuts :
          /\ Goes(r, "restart", <<Cb("git", NoErr), Call("restart", id[r])>>)
          /\ gitOut' = [gitOut EXCEPT ![r] = out]
          /\ UNCHANGED <<proc, errOut, list, now, resp, connOpen, connects, disconnects>>

\* The callback of the pull, had the failed pull been answered without the
\* return that ends the chain.
UpdateGitCbFallsThrough(r) ==
  /\ Awaits(r, "update", "git")
  /\ \/ \E e \in Errs, stderr \in GitErrOuts :
          /\ Goes(r, "restart", <<Cb("git", e), Disc, Sent,
                                  Call("restart", id[r])>>)
          /\ DisconnectPM2
          /\ errOut' = [errOut EXCEPT ![r] = stderr]
          /\ Sends(r, [status |-> 500,
                       body |-> ErrorBody(OrElse(stderr, e.message))])
          /\ UNCHANGED <<proc, gitOut, list, now>>
     \/ \E out \in GitOuts :
          /\ Goes(r, "restart", <<Cb("git", NoErr), Call("restart", id[r])>>)
          /\ gitOut' = [gitOut EXCEPT ![r] = out]
          /\ UNCHANGED <<proc, errOut, list, now, resp, connOpen, connects, disconnects>>

\* The callback of the pull (lines 242-249).
UpdateGitCb(r) ==
  /\ Awaits(r, "update", "git")
  /\ \/ \E e \in Errs, stderr \in GitErrOuts :
          /\ Goes(r, "done", <<Cb("git", e), Disc, Sent>>)
          /\ DisconnectPM2
          /\ errOut' = [errOut EXCEPT ![r] = stderr]
          /\ Sends(r, [status |-> 500,
                       body |-> ErrorBody(OrElse(stderr, e.message))])
          /\ UNCHANGED <<proc, gitOut, list, now>>
     \/ \E out \in GitOuts :
          /\ Goes(r, "restart", <<Cb("git", NoErr), Call("restart", id[r])>>)
          /\ gitOut' = [gitOut EXCEPT ![r] = out]
          /\ UNCHANGED <<proc, errOut, list, now, resp, connOpen, connects, disconnects>>

\* The pm2.restart callback of Update, had the failed restart answered with
\* the error alone.
UpdateRestartCbDropsOutput(r) ==
  /\ Awaits(r, "update", "restart")
  /\ \E e \in {NoErr} \cup Errs :
       /\ DisconnectPM2
       /\ UNCHANGED <<proc, gitOut, errOut, list, now>>
       /\ IF e.isErr
          THEN /\ Goes(r, "done", <<Cb("restart", e), Disc, Sent>>)
               /\ Sends(r, [status |-> 500, body |-> ErrorBody(e.message)])
          ELSE /\ Goes(r, "logs", <<Cb("restart", e), Disc,
                                    Call("logs", TailCmd(id[r], UpdateLogLines))>>)
               /\ UNCHANGED resp

\* The pm2.restart callback of Update, had it tailed the logs whether or
\* not the restart failed.
UpdateRestartCbTailsAnyway(r) ==
  /\ Awaits(r, "update", "restart")
  /\ \E e \in {NoErr} \cup Errs :
       /\ DisconnectPM2
       /\ UNCHANGED <<proc, gitOut, errOut, list, now, resp>>
       /\ Goes(r, "logs", <<Cb("restart", e), Disc,
                            Call("logs", TailCmd(id[r], UpdateLogLines))>>)

\* The pm2.restart callback of Update (lines 249-256).
UpdateRestartCb(r) ==
  /\ Awaits(r, "update", "restart")
  /\ \E e \in {NoErr} \cup Errs :
       /\ DisconnectPM2
       /\ UNCHANGED <<proc, gitOut, errOut, list, now>>
       /\ IF e.isErr
          THEN /\ Goes(r, "done", <<Cb("restart", e), Disc, Sent>>)
               /\ Sends(r, [status |-> 500,
                            body |-> [error |-> e.message,
                                      git_output |-> gitOut[r]]])
          ELSE /\ Goes(r, "logs", <<Cb("restart", e), Disc,
                                    Call("logs", TailCmd(id[r], UpdateLogLines))>>)
               /\ UNCHANGED resp

\* The callback of the log tail, had a failed tail failed the request.
UpdateLogsCbFails(r) ==
  /\ Awaits(r, "update", "logs")
  /\ \E e \in {NoErr} \cup Errs, out \in LogOuts :
       /\ Goes(r, "done", <<Cb("logs", e), Sent>>)
       /\ Sends(r, IF e.isErr
                   THEN [status |-> 500, body |-> ErrorBody(e.message)]
                   ELSE [status |-> 200,
                         body |-> UpdateOutcome(proc[r], CwdOf(proc[r]),
                                                gitOut[r], out)])
       /\ UNCHANGED <<proc, gitOut, errOut, list, now, connOpen, connects, disconnects>>

\* The callback of the log tail (lines 256-264).
UpdateLogsCb(r) ==
  /\ Awaits(r, "update", "logs")
  /\ \E e \in {NoErr} \cup Errs, out \in LogOuts :
       /\ Goes(r, "done", <<Cb("logs", e), Sent>>)
       /\ Sends(r, [status |-> 200,
                    body |-> UpdateOutcome(proc[r], CwdOf(proc[r]), gitOut[r],
                                           LogsText(e, out))])
       /\ UNCHANGED <<proc, gitOut, errOut, list, now, connOpen, connects, disconnects>>

----------------------------------------------------------------------------

Next ==
  \E r \in Req :
    \/ HealthRequest(r)
    \/ StatusRequest(r) \/ StatusConnectCb(r) \/ StatusListCb(r)
    \/ DescribeRequest(r) \/ DescribeConnectCb(r) \/ DescribeCb(r)
    \/ RestartRequest(r) \/ RestartConnectCb(r) \/ RestartDescribeCb(r)
    \/ RestartCb(r)
    \/ StopRequest(r) \/ StopConnectCb(r) \/ StopCb(r)
    \/ StartRequest(r) \/ StartConnectCb(r) \/ StartByNameCb(r)
    \/ StartFreshCb(r)
    \/ LogsRequest(r) \/ LogsCb(r)
    \/ UpdateRequest(r) \/ UpdateConnectCb(r) \/ UpdateDescribeCb(r)
    \/ UpdateGitCb(r) \/ UpdateRestartCb(r) \/ UpdateLogsCb(r)
    \/ Forbidden(r)

Spec == Init /\ [][Next]_vars

\* The callbacks request r is waiting for: every step of Next but the
\* arrival of a request.
Callbacks(r) ==
  \/ StatusConnectCb(r) \/ StatusListCb(r)
  \/ DescribeConnectCb(r) \/ DescribeCb(r)
  \/ RestartConnectCb(r) \/ RestartDescribeCb(r) \/ RestartCb(r)
  \/ StopConnectCb(r) \/ StopCb(r)
  \/ StartConnectCb(r) \/ StartByNameCb(r) \/ StartFreshCb(r)
  \/ LogsCb(r)
  \/ UpdateConnectCb(r) \/ UpdateDescribeCb(r) \/ UpdateGitCb(r)
  \/ UpdateRestartCb(r) \/ UpdateLogsCb(r)

\* Every external call completes: a callback that is awaited is invoked.
SpecLive == Init /\ [][Next]_vars /\ \A r \in Req : WF_vars(Callbacks(r))

(* The pm2.list callback of Status alone, over every path token and every *)
(* process list of the bounds: request 1 has connected and awaits it.      *)

InitStatus ==
  /\ op = [r \in Req |-> IF r = 1 THEN "status" ELSE "none"]
  /\ id \in {[r \in Req |-> IF r = 1 THEN i ELSE <<>>] : i \in Tokens}
  /\ body = [r \in Req |-> NoBody]
  /\ pc = [r \in Req |-> IF r = 1 THEN "list" ELSE "idle"]
  /\ proc = [r \in Req |-> NoProc]
  /\ gitOut = [r \in Req |-> <<>>]
  /\ errOut = [r \in Req |-> <<>>]
  /\ query = [r \in Req |-> Undefined]
  /\ key = [r \in Req |-> IF r = 1 THEN <<"k">> ELSE Undefined]
  /\ adminKey = <<"k">>
  /\ list = [r \in Req |-> <<>>]
  /\ now = [r \in Req |-> <<>>]
  /\ resp = [r \in Req |-> NoResp]
  /\ trace = [r \in Req |->
               IF r = 1 THEN <<Call("connect", <<>>), Cb("connect", NoErr),
                               Call("list", <<>>)>>
               ELSE <<>>]
  /\ connOpen = TRUE
  /\ connects = 1
  /\ disconnects = 0
  /\ served = 1

\* The manager gives every process its own pm_id; names may repeat.
StatusLists ==
  {l \in SeqsUpTo(Procs, MaxStatusList) :
     \A j, k \in 1..Len(l) : j # k => l[j].pm_id # l[k].pm_id}

StatusListCbAny ==
  /\ Awaits(1, "status", "list")
  /\ \/ \E e \in Errs : StatusListCbWith(1, e, <<>>, <<>>)
     \/ \E l \in StatusLists :
          \E t \in Clocks(id[1], l) : StatusListCbWith(1, NoErr, l, t)

SpecStatus == InitStatus /\ [][StatusListCbAny]_vars

----------------------------------------------------------------------------
(* Properties *)

Disconnects(t) == At(t, "disconnect", "disconnect")
Responded(r) == Occurs(trace[r], "respond", "respond")
\* The callback of call c came without an error somewhere in t.
CameOk(t, c) == \E j \in At(t, "cb", c) : t[j].ok
\* The callback of call c came with an error somewhere in t.
CameFailed(t, c) == \E j \in At(t, "cb", c) : ~t[j].ok
\* The callback of call c came without an error before position i of t.
OkBefore(t, c, i) == \E j \in At(t, "cb", c) : j < i /\ t[j].ok
\* Calls that change what the manager runs, and the pull.
Mutations(t) == At(t, "call", "restart") \cup At(t, "call", "stop")
                \cup At(t, "call", "start")

\* C1: a request whose connect succeeded calls disconnect exactly once, and
\* has done so by the time its response is sent, whatever its external
\* calls answered; no request disconnects twice; and whenever every request
\* received so far has been answered, as many connections were opened as
\* were closed.
C1_ReleasedOncePerRequest ==
  /\ \A r \in Req :
       LET t == trace[r]
       IN /\ Cardinality(Disconnects(t)) <= 1
          /\ (Responded(r) /\ CameOk(t, "connect")) =>
               /\ Cardinality(Disconnects(t)) = 1
               /\ \A d \in Disconnects(t), s \in At(t, "respond", "respond") :
                    d < s
  /\ (\A r \in Req : Free(r)) => connects = disconnects

\* An Update whose pull failed has been answered after one disconnect, next
\* to another answered request, with two connections opened and closed.
C1_Witness ==
  /\ \A r \in Req : Finished(r)
  /\ connects = 2 /\ disconnects = 2
  /\ \E r \in Req :
       /\ op[r] = "update"
       /\ CameFailed(trace[r], "git")
       /\ resp[r].status = 500
       /\ Cardinality(Disconnects(trace[r])) = 1

\* C2 as stated: while the pull of an Update is running, the request has
\* already released its manager connection.
C2_ReleasedBeforePull ==
  \A r \in Req :
    Awaits(r, "update", "git") => Disconnects(trace[r]) # {}

\* C2 amended: an Update request does not release its connection before the
\* pull: while the pull is running the request has not called disconnect,
\* its disconnect comes after the pull's callback, and of the two
\* subprocess commands only the log tail is issued after the disconnect.
C2_HeldDuringPull ==
  \A r \in Req :
    op[r] = "update" =>
      LET t == trace[r]
      IN /\ pc[r] = "git" => Disconnects(t) = {}
         /\ \A g \in At(t, "call", "git"), d \in Disconnects(t) :
              /\ g < d
              /\ \E c \in At(t, "cb", "git") : g < c /\ c < d
         /\ \A l \in At(t, "call", "logs") :
              \E d \in Disconnects(t) : d < l

\* The pull of an Update is running.
C2_Witness ==
  \E r \in Req :
    /\ Awaits(r, "update", "git")
    /\ CameOk(trace[r], "connect")
    /\ Occurs(trace[r], "call", "git")

\* A manager call of the request is pending, or (during the pull of Update)
\* yet to be issued on the connection the request opened.
NeedsConnection(r) ==
  pc[r] \in {"list", "describe", "restart", "stop", "startByName",
             "startFresh", "git"}

\* C3 as stated: the connection stays open for a request from its connect
\* to its own disconnect, whatever the other requests do.
C3_ConnectionStaysOpen ==
  \A r \in Req : NeedsConnection(r) => connOpen

\* C4: in an Update the pull is issued only after describe gave a
\* descriptor, the restart only after the pull succeeded, the log tail only
\* after the restart succeeded, and each of them at most once.
C4_UpdateStagesInOrder ==
  \A r \in Req :
    op[r] = "update" =>
      LET t == trace[r]
      IN /\ \A i \in At(t, "call", "git") :
              \E j \in At(t, "cb", "describe") : j < i /\ t[j].ok /\ t[j].n > 0
         /\ \A i \in At(t, "call", "restart") : OkBefore(t, "git", i)
         /\ \A i \in At(t, "call", "logs") : OkBefore(t, "restart", i)
         /\ \A c \in {"describe", "git", "restart", "logs"} :
              Count(t, "call", c) <= 1

\* An Update ran all its stages: the log tail was issued.
C4_Witness ==
  \E r \in Req :
    /\ op[r] = "update"
    /\ Finished(r)
    /\ Occurs(trace[r], "call", "logs")
    /\ resp[r].status = 200

\* The describe callback of the request came without an error and without
\* a descriptor (null or an empty array).
DescribedNothing(t) ==
  \E j \in At(t, "cb", "describe") : t[j].ok /\ t[j].n = 0

\* C5: when describe gives no descriptor, Describe, Restart and Update
\* answer 404 for the token and issue no restart, stop or start, and no
\* pull.
C5_MissIs404 ==
  \A r \in Req :
    (op[r] \in {"describe", "restart", "update"} /\ DescribedNothing(trace[r]))
      => /\ resp[r] = [status |-> 404, body |-> NotFoundBody(id[r])]
         /\ Mutations(trace[r]) = {}
         /\ ~Occurs(trace[r], "call", "git")

\* A Describe and an Update were both answered after describe gave nothing.
C5_Witness ==
  \E r, q \in Req :
    /\ op[r] = "describe" /\ op[q] = "update"
    /\ DescribedNothing(trace[r]) /\ DescribedNothing(trace[q])
    /\ Finished(r) /\ Finished(q)

\* The describe callback of the request came with a descriptor.
DescribedSome(t) ==
  \E j \in At(t, "cb", "describe") : t[j].ok /\ t[j].n > 0

\* C6: in a Restart request the restart call is issued only after a
\* describe call of the request came back without an error and with a
\* descriptor; after a describe that failed or gave nothing, no restart
\* call is issued.
C6_RestartOnlyAfterDescribe ==
  \A r \in Req :
    op[r] = "restart" =>
      LET t == trace[r]
      IN /\ \A i \in At(t, "call", "restart") :
              \E c \in At(t, "call", "describe"), j \in At(t, "cb", "describe") :
                c < j /\ j < i /\ t[j].ok /\ t[j].n > 0
         /\ (\E j \in At(t, "cb", "describe") : ~t[j].ok \/ t[j].n = 0)
              => Count(t, "call", "restart") = 0

\* One Restart request restarted its process and another was answered
\* after its describe failed.
C6_Witness ==
  \E r, q \in Req :
    /\ op[r] = "restart" /\ op[q] = "restart"
    /\ Finished(r) /\ Finished(q)
    /\ Occurs(trace[r], "call", "restart") /\ resp[r].status = 200
    /\ CameFailed(trace[q], "describe")

\* C7: when the restart of an Update fails after the pull succeeded, the
\* response is 500, its error is the message of the restart's error and
\* its git_output is the output the pull's callback captured.
C7_RestartFailureKeepsPullOutput ==
  \A r \in Req :
    op[r] = "update" =>
      \A j \in At(trace[r], "cb", "restart") :
        (~trace[r][j].ok /\ CameOk(trace[r], "git")) =>
          resp[r] = [status |-> 500,
                     body |-> [error |-> trace[r][j].arg,
                               git_output |-> gitOut[r]]]

\* The restart of an Update failed with "spawn error" after a pull whose
\* output ends with a carriage return and a newline.
C7_Witness ==
  \E r \in Req :
    /\ op[r] = "update"
    /\ Finished(r)
    /\ CameOk(trace[r], "git")
    /\ \E j \in At(trace[r], "cb", "restart") :
         ~trace[r][j].ok /\ trace[r][j].arg = <<"spawn error">>
    /\ gitOut[r] = <<"u", "\r", "\n">>

\* t is s without its leading and trailing whitespace.
IsTrimOf(t, s) ==
  /\ t = <<>> \/ (~IsWs(t[1]) /\ ~IsWs(t[Len(t)]))
  /\ \E i \in 0..Len(s) :
       /\ i + Len(t) <= Len(s)
       /\ t = SubSeq(s, i + 1, i + Len(t))
       /\ \A k \in 1..Len(s) : (k <= i \/ k > i + Len(t)) => IsWs(s[k])

UpdatedMessage(r) == <<"Updated and restarted '">> \o proc[r].name \o <<"'">>

\* C8: when the log tail of an Update fails, after describe, pull and
\* restart succeeded, the request still succeeds: the response is the 200
\* outcome, whose logs are the placeholder saying that the logs could not
\* be fetched, followed by the error's message.
C8_TailFailureStillSucceeds ==
  \A r \in Req :
    op[r] = "update" =>
      \A j \in At(trace[r], "cb", "logs") :
        ~trace[r][j].ok =>
          /\ resp[r].status = 200
          /\ resp[r].body.message = UpdatedMessage(r)
          /\ resp[r].body.cwd = proc[r].pm2_env.pm_cwd
          /\ resp[r].body.logs[1] = "Could not fetch logs:"
          /\ IsTrimOf(resp[r].body.logs,
                      <<"Could not fetch logs:", " ">> \o trace[r][j].arg)

\* The log tail of an Update failed after pull and restart succeeded.
C8_Witness ==
  \E r \in Req :
    /\ op[r] = "update"
    /\ Finished(r)
    /\ CameOk(trace[r], "git") /\ CameOk(trace[r], "restart")
    /\ CameFailed(trace[r], "logs")

\* Describe gave a descriptor with a working directory, and the pull and
\* the restart succeeded.
ChainSucceeded(r) ==
  /\ DescribedSome(trace[r])
  /\ Truthy(proc[r].pm2_env.pm_cwd)
  /\ CameOk(trace[r], "git")
  /\ CameOk(trace[r], "restart")

\* C9: an Update answers 200 only when describe gave a descriptor with a
\* working directory and the pull and the restart succeeded; and when they
\* all did, the answered request sent the outcome naming the descriptor's
\* process, with the descriptor's working directory and the pull's output
\* without its leading and trailing whitespace.
C9_OutcomeIffChainSucceeded ==
  \A r \in Req :
    op[r] = "update" =>
      /\ resp[r].status = 200 => ChainSucceeded(r)
      /\ (Finished(r) /\ ChainSucceeded(r)) =>
           /\ resp[r].status = 200
           /\ resp[r].body.message = UpdatedMessage(r)
           /\ resp[r].body.cwd = proc[r].pm2_env.pm_cwd
           /\ IsTrimOf(resp[r].body.git_output, gitOut[r])

\* An Update succeeded whose pull output had whitespace to trim, and whose
\* process name differs from the token.
C9_Witness ==
  \E r \in Req :
    /\ op[r] = "update"
    /\ Finished(r)
    /\ ChainSucceeded(r)
    /\ CameOk(trace[r], "logs")
    /\ gitOut[r] = <<" ", "v">>
    /\ resp[r].body.git_output = <<"v">>
    /\ proc[r].name # id[r]

\* The token i is the stringified pm_id or the name of process p.
TokenNames(p, i) == ToStr(p.pm_id) = i \/ p.name = i

\* C10 as stated: Status with a token that is the stringified id or the
\* name of a process of the list answers with the summary of that process.
C10_ReturnsThatProcess ==
  \A r \in Req :
    (op[r] = "status" /\ Finished(r) /\ CameOk(trace[r], "list")) =>
      \A j \in 1..Len(list[r]) :
        TokenNames(list[r][j], id[r]) =>
          resp[r] = [status |-> 200, body |-> Summary(list[r][j])]

\* C10 amended: Status with a token other than "all" that is the
\* stringified id or the name of a process of the list answers 200 with the
\* summary of the first process of the list that the token names.
C10_ReturnsFirstNamed ==
  \A r \in Req :
    (op[r] = "status" /\ Finished(r) /\ CameOk(trace[r], "list")
       /\ id[r] # All) =>
      \A j \in 1..Len(list[r]) :
        (/\ TokenNames(list[r][j], id[r])
         /\ \A h \in 1..(j - 1) : ~TokenNames(list[r][h], id[r])) =>
          /\ resp[r].status = 200
          /\ resp[r].body.id = list[r][j].pm_id
          /\ resp[r].body.name = list[r][j].name
          /\ resp[r].body.pid = list[r][j].pid
          /\ resp[r].body.status = list[r][j].pm2_env.status
          /\ resp[r].body.cwd = list[r][j].pm2_env.pm_cwd
          /\ resp[r].body.restarts = list[r][j].pm2_env.restart_time

\* Status was answered for a token that names two processes of the list,
\* the first by its name and the second by its id.
C10_Witness ==
  \E r \in Req :
    /\ op[r] = "status" /\ Finished(r) /\ CameOk(trace[r], "list")
    /\ id[r] # All
    /\ Len(list[r]) = 2
    /\ list[r][1].name = id[r] /\ ToStr(list[r][1].pm_id) # id[r]
    /\ ToStr(list[r][2].pm_id) = id[r]
    /\ resp[r].status = 200
    /\ resp[r].body.id = list[r][1].pm_id

\* The text q is not a decimal number.
NonNumeric(q) == q # Undefined /\ (q = <<>> \/ \E j \in 1..Len(q) : ~IsDigit(q[j]))

\* The log-tail command bounded to the default of 30 lines.
DefaultTail(i) == <<"pm2 logs ">> \o i \o <<" --lines ", "3", "0", " --nostream">>

\* C11 as stated: Logs with a lines value that is not a number issues the
\* command it issues when lines is omitted, a tail of 30 lines.
C11_NonNumericLinesIsDefault ==
  \A r \in Req :
    (op[r] = "logs" /\ resp[r].status # 403) =>
      /\ query[r] = Undefined => trace[r][1].arg = DefaultTail(id[r])
      /\ NonNumeric(query[r]) =>
           /\ trace[r][1] = Call("logs", DefaultTail(id[r]))
           /\ Count(trace[r], "call", "logs") = 1

\* C12 as stated: Status "all" answers one entry per process of the list,
\* each with the uptime max(0, floor((now - pm_uptime) / 1000)) when
\* pm_uptime is set, now being the clock as read for that entry, and 0
\* otherwise, so never a negative uptime.
C12_UptimeClamped ==
  \A r \in Req :
    (op[r] = "status" /\ Finished(r) /\ CameOk(trace[r], "list")
       /\ id[r] = All) =>
      /\ resp[r].status = 200
      /\ resp[r].body.count = Len(list[r])
      /\ Len(resp[r].body.processes) = Len(list[r])
      /\ \A j \in 1..Len(list[r]) :
           LET up == list[r][j].pm2_env.pm_uptime
               read == Cardinality({k \in 1..j :
                                      list[r][k].pm2_env.pm_uptime # 0})
               secs == IF up = 0 THEN 0 ELSE (now[r][read] - up) \div 1000
           IN /\ resp[r].body.processes[j].uptime_seconds >= 0
              /\ resp[r].body.processes[j].uptime_seconds =
                   IF up = 0 THEN 0 ELSE IF secs < 0 THEN 0 ELSE secs

\* C13: Start without a script issues one start call, which carries the
\* name alone, once the connection is open, and never a second one; when
\* that call fails the answer is 400 with the manager's message as details.
C13_StartByNameOnly ==
  \A r \in Req :
    (op[r] = "start" /\ ~Truthy(body[r].script) /\ resp[r].status # 403) =>
      LET t == trace[r]
      IN /\ Count(t, "call", "start") <= 1
         /\ CameOk(t, "connect") => Count(t, "call", "start") = 1
         /\ \A j \in At(t, "call", "start") :
              t[j].opts = [name |-> id[r], script |-> Undefined,
                           args |-> Undefined, cwd |-> Undefined,
                           exec_mode |-> Undefined, instances |-> 0]
         /\ \A j \in At(t, "cb", "start") :
              ~t[j].ok =>
                resp[r] = [status |-> 400,
                           body |-> [error |-> <<"Missing script; and starting by name failed">>,
                                     details |-> t[j].arg]]

\* A Start without a script was answered 400 after its start by name
\* failed.
C13_Witness ==
  \E r \in Req :
    /\ op[r] = "start" /\ ~Truthy(body[r].script)
    /\ Finished(r)
    /\ CameFailed(trace[r], "start")
    /\ resp[r].status = 400

\* C14 as stated: Start with a script issues, once the connection is open,
\* one fresh launch whose descriptor has the token as name, the supplied
\* exec_mode or "fork", and the supplied instances or 1 when none is
\* supplied; a manager error on it is answered 500.
C14_FreshLaunchAsSupplied ==
  \A r \in Req :
    (op[r] = "start" /\ Truthy(body[r].script) /\ CameOk(trace[r], "connect")) =>
      LET t == trace[r]
      IN /\ Count(t, "call", "start") = 1
         /\ \A j \in At(t, "call", "start") :
              /\ t[j].opts.name = id[r]
              /\ t[j].opts.script = body[r].script
              /\ t[j].opts.exec_mode =
                   IF body[r].exec_mode = Undefined THEN <<"fork">>
                   ELSE body[r].exec_mode
              /\ t[j].opts.instances =
                   IF body[r].instancesGiven THEN body[r].instances ELSE 1
         /\ \A j \in At(t, "cb", "start") :
              ~t[j].ok => resp[r] = [status |-> 500,
                                     body |-> [error |-> t[j].arg]]

\* The calls a handler makes after it has the connection, and the
\* subprocess commands.
LaterCalls == {"list", "describe", "start", "stop", "restart", "git", "logs"}

\* C15: when the connection cannot be opened the request is answered 500
\* with the error's message, and it has issued no manager call, no
\* subprocess command and no disconnect.
C15_ConnectFailureShortCircuits ==
  \A r \in Req :
    \A j \in At(trace[r], "cb", "connect") :
      ~trace[r][j].ok =>
        /\ resp[r] = [status |-> 500, body |-> [error |-> trace[r][j].arg]]
        /\ \A c \in LaterCalls : ~Occurs(trace[r], "call", c)
        /\ Disconnects(trace[r]) = {}
        /\ Finished(r)

\* An Update and a Status were answered after their connects failed, and
\* nothing was disconnected.
C15_Witness ==
  \E r, q \in Req :
    /\ op[r] = "update" /\ op[q] = "status"
    /\ CameFailed(trace[r], "connect") /\ CameFailed(trace[q], "connect")
    /\ resp[r].status = 500 /\ resp[q].status = 500
    /\ disconnects = 0

\* C16: a failure of a stage of Update ends the chain: a descriptor without
\* a working directory is answered 400 with no pull, restart or log tail; a
\* failed pull is answered 500 with the captured stderr (the error's message
\* when stderr is empty) and no restart or log tail; a failed restart is
\* answered 500 with no log tail.
C16_UpdateFailureEndsChain ==
  \A r \in Req :
    op[r] = "update" =>
      LET t == trace[r]
      IN /\ (DescribedSome(t) /\ ~Truthy(proc[r].pm2_env.pm_cwd)) =>
              /\ resp[r].status = 400
              /\ \A c \in {"git", "restart", "logs"} : ~Occurs(t, "call", c)
         /\ \A j \in At(t, "cb", "git") :
              ~t[j].ok =>
                /\ resp[r].status = 500
                /\ resp[r].body.error =
                     IF errOut[r] # <<>> THEN errOut[r] ELSE t[j].arg
                /\ \A c \in {"restart", "logs"} : ~Occurs(t, "call", c)
                /\ Finished(r)
         /\ \A j \in At(t, "cb", "restart") :
              ~t[j].ok =>
                /\ resp[r].status = 500
                /\ ~Occurs(t, "call", "logs")
                /\ Finished(r)

\* One Update was answered after its pull failed with text on stderr, and
\* another after its descriptor had no working directory.
C16_Witness ==
  \E r, q \in Req :
    /\ op[r] = "update" /\ op[q] = "update"
    /\ CameFailed(trace[r], "git") /\ errOut[r] = <<"f", "\n">>
    /\ resp[r].status = 500
    /\ DescribedSome(trace[q]) /\ resp[q].status = 400

\* The callbacks of the manager calls that C17 names.
ManagerRpcs == {"list", "describe", "stop", "restart"}

\* C17 as stated: a manager call that reports an error is answered 500 with
\* the error's text, in Restart and Update as in Describe, and 404 is
\* answered only when no manager call failed.
C17_ManagerErrorIs500 ==
  \A r \in Req :
    \A j \in 1..Len(trace[r]) :
      (/\ trace[r][j].k = "cb" /\ ~trace[r][j].ok
       /\ \/ trace[r][j].c \in ManagerRpcs
          \/ trace[r][j].c = "start" /\ Truthy(body[r].script)) =>
        /\ resp[r].status = 500
        /\ resp[r].body.error = trace[r][j].arg

\* C18: Status with a token other than "all" answers with the summary of
\* the first process of the list whose stringified id or whose name is the
\* token, whichever of the two it is, and with 404 when the list has none.
C18_FirstMatchElse404 ==
  \A r \in Req :
    (op[r] = "status" /\ Finished(r) /\ CameOk(trace[r], "list")
       /\ id[r] # All) =>
      LET named == {j \in 1..Len(list[r]) : TokenNames(list[r][j], id[r])}
      IN IF named = {}
         THEN resp[r] = [status |-> 404,
                         body |-> [error |-> <<"Process '">> \o id[r]
                                               \o <<"' not found">>]]
         ELSE \E j \in named :
                /\ \A h \in named : j <= h
                /\ resp[r].status = 200
                /\ resp[r].body.id = list[r][j].pm_id
                /\ resp[r].body.name = list[r][j].name

\* Status for the token "1" was answered with process 0 named "1", which
\* stands in the list before process 1.
C18_Witness ==
  \E r \in Req :
    /\ op[r] = "status" /\ Finished(r) /\ id[r] = <<"1">>
    /\ Len(list[r]) = 2
    /\ list[r][1].pm_id = 0 /\ list[r][1].name = <<"1">>
    /\ list[r][2].pm_id = 1 /\ list[r][2].name = <<"a">>
    /\ resp[r].status = 200
    /\ resp[r].body.id = 0 /\ resp[r].body.name = <<"1">>

\* The responses request r has sent.
Responses(r) == Count(trace[r], "respond", "respond")

\* C19: when every awaited callback is invoked, a request that has arrived
\* is eventually answered, and at no time has it sent more than one
\* response; once answered it has sent exactly one.
C19_AnsweredExactlyOnce ==
  \A r \in Req :
    /\ [](Responses(r) <= 1)
    /\ [](Finished(r) => Responses(r) = 1)
    /\ (op[r] # "none") ~> Finished(r)

\* An Update was answered after its whole chain, and a Logs was answered.
C19_Witness ==
  \E r, q \in Req :
    /\ op[r] = "update" /\ Finished(r) /\ CameOk(trace[r], "logs")
    /\ Responses(r) = 1
    /\ op[q] = "logs" /\ Finished(q) /\ Responses(q) = 1

\* C20: a request without an API key, or with a key that is not the admin
\* key, is answered 403 and has issued no connect, no manager call and no
\* subprocess command, also when no admin key is configured.
C20_BadKeyIsForbidden ==
  \A r \in Req :
    (op[r] # "none" /\ (key[r] = Undefined \/ key[r] # adminKey)) =>
      /\ resp[r] = [status |-> 403,
                    body |-> [error |-> <<"Forbidden: Invalid or missing API key">>]]
      /\ \A j \in 1..Len(trace[r]) : trace[r][j].k = "respond"
      /\ Finished(r)

\* No admin key is configured: a request with a key and a request without
\* one were both answered 403.
C20_Witness ==
  \E r, q \in Req :
    /\ adminKey = Undefined
    /\ op[r] # "none" /\ key[r] = <<"k">> /\ resp[r].status = 403
    /\ op[q] # "none" /\ key[q] = Undefined /\ resp[q].status = 403

====
